---- MODULE Spec2Model ----
(***************************************************************************)
(* Model of application-monitor: DockerMonitor and ServerMonitor ticks,    *)
(* driven by two threads looping on the shared default scheduler of the    *)
(* `schedule` library, and the Flask /api/monitor handler reading stats.   *)
(*                                                                         *)
(* Percentages are integers in hundredths of a percent (5000 = 50.00%).    *)
(* A mean sum/len is kept as the exact fraction <<sum, len>>.              *)
(* The clock counts abstract time units; interval and analysis_period are  *)
(* expressed in the same unit.                                             *)
(***************************************************************************)
EXTENDS Integers, Sequences, FiniteSets, TLC

\* ------------------------------------------------------------------ bounds
MaxTime == 3
ProgramMaxTime == 2
MaxSamples == 2
MaxHostSamples == 3
MaxQueries == 1

\* ------------------------------------------------------ names and domains
Containers == {"web", "db"}
server_name == "Server"
Threads == {"monitoring_thread", "monitor_server_thread"}
NoOwner == "nobody"

\* container.stats() results after _decode_container_stats: a sample holds
\* cpu_percent_value / memory_percent_value only when the decoder set them.
Sample(c, m, hc, hm) == [cpu |-> c, mem |-> m, has_cpu |-> hc, has_mem |-> hm]
NoSample == Sample(0, 0, FALSE, FALSE)
DockerSamples == { Sample(4000, 4000, TRUE, TRUE),
                   Sample(8000, 4000, TRUE, TRUE),
                   Sample(6000, 8000, TRUE, TRUE),
                   Sample(4000, 0, TRUE, FALSE) }
\* psutil.cpu_percent() / psutil.virtual_memory().percent
HostSamples == { Sample(5000, 5000, TRUE, TRUE),
                 Sample(5000, 5010, TRUE, TRUE) }

\* containers.list(): some of the containers, in the order docker lists them
ContainerLists == { <<>>, <<"web">>, <<"db">>, <<"web", "db">> }

\* Environment: INTERVAL_SECS, ANALYSIS_PERIOD_MIN, CPU_ALARM_THRESHOLD,
\* MEMORY_ALARM_THRESHOLD (both monitors read the same variables).
Intervals == {1}
AnalysisPeriods == {1, 2, 3}
CpuThresholds == {0, 5000}
MemoryThresholds == {5003}
\* A machine: the containers it runs, the samples container.stats() and
\* psutil can return on it.
Host(cs, ss, ps) == [containers |-> cs, samples |-> ss, psutil |-> ps]

StatsConfig == [interval : Intervals, analysis_period : AnalysisPeriods,
                cpu_alarm_threshold : CpuThresholds,
                memory_alarm_threshold : MemoryThresholds]

VARIABLES
  now,                          \* datetime.now()
  horizon,                      \* the instant at which the observation ends
  host,                         \* the machine: its containers, what docker and psutil report
  config,                       \* StatsConfig / DockerMonitorConfig
  decoded_stats_per_container,  \* DockerMonitor: name -> [stats, time]
  server_stats,                 \* ServerMonitor: [cpu, memory]
  last_analysis_time,           \* ServerMonitor._last_analysis_time
  lock,                         \* [docker, server] -> owner of _lock
  jobs,                         \* schedule.jobs, in registration order
  pc,                           \* position of each monitoring thread
  pending,                      \* jobs a thread's run_pending still has to run
  dframe,                       \* locals of DockerMonitor._do_monitor
  sframe,                       \* locals of ServerMonitor._do_monitor
  query,                        \* the /api/monitor handler
  window,                       \* history: samples stored for a target since its last reset
  counted,                      \* history: expiry evaluations of a target's held samples
  ev                            \* history: what the last tick step did

vars == <<now, horizon, host, config, decoded_stats_per_container, server_stats,
          last_analysis_time, lock, jobs, pc, pending, dframe, sframe,
          query, window, counted, ev>>

Targets == Containers \cup {server_name}

\* ----------------------------------------------------------- pure helpers
RECURSIVE Sum(_)
Sum(s) == IF s = <<>> THEN 0 ELSE Head(s) + Sum(Tail(s))

CpuValues(stats) == [i \in 1..Len(stats) |-> stats[i].cpu]
MemValues(stats) == [i \in 1..Len(stats) |-> stats[i].mem]

\* The result of a mean computation: the error raised, or the two fractions.
Usage(err, cs, cn, ms, mn) ==
  [err |-> err, cpuSum |-> cs, cpuN |-> cn, memSum |-> ms, memN |-> mn]

\* _compute_cpu_usage with the comprehension running over stats[1:]: the
\* first sample of the window is left out of both sums.
_compute_cpu_usage_skip_first(stats) ==
  IF \E i \in 1..Len(stats) : ~stats[i].has_cpu \/ ~stats[i].has_mem
    THEN Usage("KeyError", 0, 0, 0, 0)
  ELSE IF Len(stats) = 0
    THEN Usage("ZeroDivisionError", 0, 0, 0, 0)
  ELSE Usage("none", Sum(CpuValues(Tail(stats))), Len(stats),
                     Sum(MemValues(Tail(stats))), Len(stats))

\* docker_monitor/monitor.py _compute_cpu_usage: a sample without
\* cpu_percent_value / memory_percent_value raises KeyError in the list
\* comprehension; an empty list divides by zero.
_compute_cpu_usage(stats) ==
  IF \E i \in 1..Len(stats) : ~stats[i].has_cpu \/ ~stats[i].has_mem
    THEN Usage("KeyError", 0, 0, 0, 0)
  ELSE IF Len(stats) = 0
    THEN Usage("ZeroDivisionError", 0, 0, 0, 0)
  ELSE Usage("none", Sum(CpuValues(stats)), Len(stats),
                     Sum(MemValues(stats)), Len(stats))

\* server_monitor/monitor.py _compute_stats_usage
_compute_stats_usage(cpu_stats, mem_stats) ==
  IF Len(cpu_stats) = 0 \/ Len(mem_stats) = 0
    THEN Usage("ZeroDivisionError", 0, 0, 0, 0)
  ELSE Usage("none", Sum(cpu_stats), Len(cpu_stats),
                     Sum(mem_stats), Len(mem_stats))

\* round(x, 2) of the float x = num/den, in hundredths: the nearest integer.
\* An exact tie is decided by the binary representation of x, so both
\* neighbours are possible results.
Round2(num, den) ==
  LET q == num \div den
      r == num % den
  IN  IF 2 * r < den THEN {q}
      ELSE IF 2 * r > den THEN {q + 1}
      ELSE {q, q + 1}

\* threshold < num/den
Exceeds(threshold, num, den) == threshold * den < num

\* The chain written with <= : a mean equal to its threshold alerts.
AlertForInclusive(cth, mth, cnum, cden, mnum, mden) ==
  IF cth * cden <= cnum /\ mth * mden <= mnum THEN "Both"
  ELSE IF cth * cden <= cnum THEN "CpuOnly"
  ELSE IF mth * mden <= mnum THEN "MemoryOnly"
  ELSE "NoAlert"

\* The if / elif / elif chain of _do_monitor: which send_* function is called.
AlertFor(cth, mth, cnum, cden, mnum, mden) ==
  IF Exceeds(cth, cnum, cden) /\ Exceeds(mth, mnum, mden) THEN "Both"
  ELSE IF Exceeds(cth, cnum, cden) THEN "CpuOnly"
  ELSE IF Exceeds(mth, mnum, mden) THEN "MemoryOnly"
  ELSE "NoAlert"

\* telegrambot/sender.py: _create_cpu_alarm_message and
\* _create_memory_alarm_message divide the value by the threshold.
SinkRaises(kind, cth, mth) ==
  \/ kind = "CpuOnly" /\ cth = 0
  \/ kind = "MemoryOnly" /\ mth = 0

\* num/den divided by threshold is at least p/q (threshold # 0, den > 0).
RatioAtLeast(num, den, threshold, p, q) ==
  IF threshold > 0 THEN q * num >= p * threshold * den
  ELSE q * num <= p * threshold * den

\* The severity test written with `>` : a ratio of exactly 1.5 is HIGH and a
\* ratio of exactly 1.2 is WARNING.
_severity_exclusive(num, den, threshold) ==
  IF ~RatioAtLeast(num, den, threshold, 3, 2)
        \/ 2 * num = 3 * threshold * den THEN
    IF ~RatioAtLeast(num, den, threshold, 6, 5)
          \/ 5 * num = 6 * threshold * den THEN "WARNING"
    ELSE "HIGH"
  ELSE "CRITICAL"

\* sender.py lines 76-86 and 129-139: severity_ratio = value / threshold,
\* >= 1.5 CRITICAL, >= 1.2 HIGH, else WARNING.
_severity(num, den, threshold) ==
  IF RatioAtLeast(num, den, threshold, 3, 2) THEN "CRITICAL"
  ELSE IF RatioAtLeast(num, den, threshold, 6, 5) THEN "HIGH"
  ELSE "WARNING"

\* The severity line of the message each send_* function builds:
\* _create_resource_alert_message always writes CRITICAL.
MessageSeverity(kind, cth, mth, cpu, mem) ==
  IF kind = "Both" THEN "CRITICAL"
  ELSE IF kind = "CpuOnly" THEN _severity(cpu[1], cpu[2], cth)
  ELSE _severity(mem[1], mem[2], mth)

\* What _send_message returns: delivered or not.
SinkResults == {"sent", "failed"}

\* ------------------------------------------------------------ history record
\* What the current iteration of a tick did for its target: the branch taken,
\* the mean computed (cpuSum/cpuN, memSum/memN), the values compared with the
\* thresholds, the send_* function called and how the call ended.
EvBase(mon, target) ==
  [mon |-> mon, target |-> target, kind |-> "none",
   expired |-> FALSE, computed |-> FALSE,
   cpuSum |-> 0, cpuN |-> 0, memSum |-> 0, memN |-> 0,
   cpuCmp |-> <<0, 1>>, memCmp |-> <<0, 1>>,
   decision |-> "None", calls |-> 0, sink |-> "none", severity |-> "none",
   reset |-> FALSE, error |-> "none", done |-> FALSE]

NoEntry == [stats |-> <<>>, time |-> 0]
NoDFrame == [containers |-> <<>>, listed |-> <<>>, attempted |-> <<>>,
             name |-> "", sample |-> NoSample, read |-> 0, time |-> 0,
             decision |-> "None"]
NoSFrame == [time |-> 0, decision |-> "None", memory_computed |-> 0]
NoStats == [cpu |-> <<>>, memory |-> <<>>]
NoQuery == [pc |-> "idle", stats_data |-> <<>>, server_stats |-> NoStats,
            error |-> "none", served |-> 0]

\* ------------------------------------------------------------------- Init
\* The state after main.py lines 10-18: both monitors constructed
\* (ServerMonitor.__init__ takes one sample and starts its window), both
\* threads created. The environment is a configuration and a docker host.
InitFor(configs, hosts, end) ==
  /\ now = 0
  /\ horizon = end
  /\ host \in hosts
  /\ config \in configs
  /\ decoded_stats_per_container = [c \in {} |-> NoEntry]
  /\ \E s \in host.psutil : server_stats = [cpu |-> <<s.cpu>>, memory |-> <<s.mem>>]
  /\ last_analysis_time = 0
  /\ lock = [docker |-> NoOwner, server |-> NoOwner]
  /\ jobs = <<>>
  /\ pc = [t \in Threads |-> "start"]
  /\ pending = [t \in Threads |-> <<>>]
  /\ dframe = NoDFrame
  /\ sframe = NoSFrame
  /\ query = NoQuery
  /\ window = [x \in Targets |->
                  IF x = server_name
                    THEN <<Sample(server_stats.cpu[1], server_stats.memory[1], TRUE, TRUE)>>
                    ELSE <<>>]
  /\ counted = [x \in Targets |-> 0]
  /\ ev = [docker |-> EvBase("docker", ""), server |-> EvBase("server", server_name)]

\* ------------------------------------------------------------- the clock
\* Wall-clock time passes between any two steps of any thread.
ClockAdvance ==
  /\ now < horizon
  /\ now' = now + 1
  /\ UNCHANGED <<horizon, host, config, decoded_stats_per_container, server_stats,
                 last_analysis_time, lock, jobs, pc, pending, dframe, sframe,
                 query, window, counted, ev>>

\* ---------------------------------------------------- schedule (the library)
JobOf(t) == IF t = "monitoring_thread" THEN "docker" ELSE "server"

\* Job.should_run: datetime.now() >= self.next_run
ShouldRun(job) == now >= job.next_run

\* sorted(runnable_jobs): by next_run, stable (at most two jobs exist)
SortJobs(s) ==
  IF Len(s) = 2 /\ s[2].next_run < s[1].next_run THEN <<s[2], s[1]>> ELSE s

JobFuncs(s) == [i \in 1..Len(s) |-> s[i].func]

\* Job.run after job_func returned: last_run, then _schedule_next_run sets
\* next_run = datetime.now() + interval.
Rescheduled(func) ==
  [i \in 1..Len(jobs) |->
     IF jobs[i].func = func
       THEN [jobs[i] EXCEPT !.next_run = now + config.interval]
       ELSE jobs[i]]

\* start_monitoring: schedule.every(interval).seconds.do(self._do_monitor)
StartMonitoring(t) ==
  /\ pc[t] = "start"
  /\ jobs' = Append(jobs, [func |-> JobOf(t), next_run |-> now + config.interval])
  /\ pc' = [pc EXCEPT ![t] = "loop"]
  /\ UNCHANGED <<now, horizon, host, config, decoded_stats_per_container, server_stats,
                 last_analysis_time, lock, pending, dframe, sframe, query,
                 window, counted, ev>>

\* while True: schedule.run_pending() -- the jobs that are due, collected once
\* per call; an iteration that finds none changes nothing.
RunPending(t) ==
  /\ pc[t] = "loop"
  /\ LET due == SortJobs(SelectSeq(jobs, ShouldRun))
     IN  /\ due # <<>>
         /\ pending' = [pending EXCEPT ![t] = JobFuncs(due)]
  /\ pc' = [pc EXCEPT ![t] = "run"]
  /\ UNCHANGED <<now, horizon, host, config, decoded_stats_per_container, server_stats,
                 last_analysis_time, lock, jobs, dframe, sframe, query,
                 window, counted, ev>>

\* The job function returned normally: reschedule, go on with the next due job.
JobReturns(t) ==
  /\ jobs' = Rescheduled(Head(pending[t]))
  /\ pending' = [pending EXCEPT ![t] = Tail(pending[t])]
  /\ pc' = [pc EXCEPT ![t] = IF Tail(pending[t]) = <<>> THEN "loop" ELSE "run"]

\* An exception left the job function: it leaves run_pending and the
\* `while True` loop (only KeyboardInterrupt is caught), the thread ends.
ThreadDies(t) ==
  /\ pc' = [pc EXCEPT ![t] = "dead"]
  /\ pending' = [pending EXCEPT ![t] = <<>>]
  /\ UNCHANGED jobs

\* --------------------------------------------------- DockerMonitor._do_monitor
\* _do_monitor without `with self._lock:`: the tick starts at once.
DockerAcquireNoLock(t) ==
  /\ pc[t] = "run" /\ Head(pending[t]) = "docker"
  /\ lock' = [lock EXCEPT !.docker = t]
  /\ pc' = [pc EXCEPT ![t] = "d_list"]
  /\ dframe' = NoDFrame
  /\ ev' = [ev EXCEPT !.docker = EvBase("docker", "")]
  /\ UNCHANGED <<now, horizon, host, config, decoded_stats_per_container, server_stats,
                 last_analysis_time, jobs, pending, sframe, query, window,
                 counted>>

\* `with self._lock:` -- the tick starts when the lock is free.
DockerAcquire(t) ==
  /\ pc[t] = "run" /\ Head(pending[t]) = "docker"
  /\ lock.docker = NoOwner
  /\ lock' = [lock EXCEPT !.docker = t]
  /\ pc' = [pc EXCEPT ![t] = "d_list"]
  /\ dframe' = NoDFrame
  /\ ev' = [ev EXCEPT !.docker = EvBase("docker", "")]
  /\ UNCHANGED <<now, horizon, host, config, decoded_stats_per_container, server_stats,
                 last_analysis_time, jobs, pending, sframe, query, window,
                 counted>>

\* containers = self.client.containers.list()
DockerList(t) ==
  /\ pc[t] = "d_list"
  /\ \E l \in ContainerLists :
       /\ \A i \in 1..Len(l) : l[i] \in host.containers
       /\ dframe' = [NoDFrame EXCEPT !.containers = l, !.listed = l]
  /\ pc' = [pc EXCEPT ![t] = "d_loop"]
  /\ UNCHANGED <<now, horizon, host, config, decoded_stats_per_container, server_stats,
                 last_analysis_time, lock, jobs, pending, sframe, query,
                 window, counted, ev>>

\* containers.list() raises: the outer `except Exception` ends the cycle.
DockerListFails(t) ==
  /\ pc[t] = "d_list"
  /\ lock' = [lock EXCEPT !.docker = NoOwner]
  /\ dframe' = NoDFrame
  /\ ev' = [ev EXCEPT !.docker = EvBase("docker", "")]
  /\ JobReturns(t)
  /\ UNCHANGED <<now, horizon, host, config, decoded_stats_per_container, server_stats,
                 last_analysis_time, sframe, query, window, counted>>

\* The loop moves on to the next container.
NextContainer(f) ==
  [f EXCEPT !.containers = Tail(f.containers),
            !.attempted = Append(f.attempted, Head(f.containers)),
            !.name = "", !.sample = NoSample, !.read = 0, !.time = 0,
            !.decision = "None"]

\* The stats call left outside the inner try: its exception reaches the outer
\* handler and the remaining containers of the cycle are not visited.
DockerStatsAborts(t) ==
  /\ pc[t] = "d_loop" /\ dframe.containers # <<>>
  /\ ev' = [ev EXCEPT !.docker =
              [EvBase("docker", Head(dframe.containers)) EXCEPT
                 !.kind = "sample_failed", !.error = "Exception", !.done = TRUE]]
  /\ dframe' = [NextContainer(dframe) EXCEPT !.containers = <<>>]
  /\ UNCHANGED <<now, horizon, host, config, decoded_stats_per_container,
                 server_stats, last_analysis_time, lock, jobs, pc, pending,
                 sframe, query, window, counted>>

\* container.stats(...) raises: the inner `except Exception` skips the container.
DockerStatsFails(t) ==
  /\ pc[t] = "d_loop" /\ dframe.containers # <<>>
  /\ ev' = [ev EXCEPT !.docker =
              [EvBase("docker", Head(dframe.containers)) EXCEPT
                 !.kind = "sample_failed", !.error = "Exception", !.done = TRUE]]
  /\ dframe' = NextContainer(dframe)
  /\ UNCHANGED <<now, horizon, host, config, decoded_stats_per_container, server_stats,
                 last_analysis_time, lock, jobs, pc, pending, sframe, query,
                 window, counted>>

\* Lines 109-115, first sample of a container: the entry is created, `continue`.
DockerCreate(t, name, s) ==
  /\ name \notin DOMAIN decoded_stats_per_container
  /\ decoded_stats_per_container' =
       [c \in DOMAIN decoded_stats_per_container \cup {name} |->
          IF c = name THEN [stats |-> <<s>>, time |-> now]
          ELSE decoded_stats_per_container[c]]
  /\ window' = [window EXCEPT ![name] = <<s>>]
  /\ ev' = [ev EXCEPT !.docker =
              [EvBase("docker", name) EXCEPT !.kind = "create", !.done = TRUE]]
  /\ dframe' = NextContainer(dframe)
  /\ pc' = [pc EXCEPT ![t] = "d_loop"]
  /\ UNCHANGED counted

\* Lines 130-131, the window has not expired: the sample is appended.
DockerAppend(t, name, s) ==
  /\ name \in DOMAIN decoded_stats_per_container
  /\ LET entry == decoded_stats_per_container[name]
     IN  /\ ~((now - entry.time) >= config.analysis_period)
         /\ Len(entry.stats) < MaxSamples
         /\ decoded_stats_per_container' =
              [decoded_stats_per_container EXCEPT
                 ![name].stats = Append(entry.stats, s)]
  /\ window' = [window EXCEPT ![name] = Append(@, s)]
  /\ ev' = [ev EXCEPT !.docker =
              [EvBase("docker", name) EXCEPT !.kind = "append", !.done = TRUE]]
  /\ dframe' = NextContainer(dframe)
  /\ pc' = [pc EXCEPT ![t] = "d_loop"]
  /\ UNCHANGED counted

\* The reset written as `stats = []`: the sample of the closing tick is lost.
DockerResetEmpty(name, s, time) ==
  /\ decoded_stats_per_container' =
       [decoded_stats_per_container EXCEPT
          ![name] = [stats |-> <<>>, time |-> time]]
  /\ window' = [window EXCEPT ![name] = <<>>]
  /\ counted' = [counted EXCEPT ![name] = 0]

\* Lines 128-129: the window restarts with the sample of this tick.
DockerReset(name, s, time) ==
  /\ decoded_stats_per_container' =
       [decoded_stats_per_container EXCEPT
          ![name] = [stats |-> <<s>>, time |-> time]]
  /\ window' = [window EXCEPT ![name] = <<s>>]
  /\ counted' = [counted EXCEPT ![name] = 0]

\* Lines 116-127, the window has expired: the mean of the stored samples is
\* computed and compared. Without an alert the window is reset at once; with
\* one, the matching send_* function is called next.
DockerExpired(t, name, s) ==
  /\ name \in DOMAIN decoded_stats_per_container
  /\ LET entry == decoded_stats_per_container[name]
         u == _compute_cpu_usage(entry.stats)
         decision == AlertFor(config.cpu_alarm_threshold,
                              config.memory_alarm_threshold,
                              u.cpuSum, u.cpuN, u.memSum, u.memN)
         e == [EvBase("docker", name) EXCEPT !.kind = "expired", !.expired = TRUE]
         e2 == [e EXCEPT !.computed = TRUE,
                         !.cpuSum = u.cpuSum, !.cpuN = u.cpuN,
                         !.memSum = u.memSum, !.memN = u.memN,
                         !.cpuCmp = <<u.cpuSum, u.cpuN>>,
                         !.memCmp = <<u.memSum, u.memN>>,
                         !.decision = decision]
     IN  /\ (now - entry.time) >= config.analysis_period
         /\ IF u.err # "none"
              THEN \* _compute_cpu_usage raised: caught by the inner except
                   /\ ev' = [ev EXCEPT !.docker =
                               [e EXCEPT !.error = u.err, !.done = TRUE]]
                   /\ dframe' = NextContainer(dframe)
                   /\ pc' = [pc EXCEPT ![t] = "d_loop"]
                   /\ UNCHANGED <<decoded_stats_per_container, window, counted>>
              ELSE IF decision = "NoAlert"
              THEN /\ DockerReset(name, s, now)
                   /\ ev' = [ev EXCEPT !.docker =
                               [e2 EXCEPT !.reset = TRUE, !.done = TRUE]]
                   /\ dframe' = NextContainer(dframe)
                   /\ pc' = [pc EXCEPT ![t] = "d_loop"]
              ELSE /\ counted' = [counted EXCEPT ![name] = @ + 1]
                   /\ ev' = [ev EXCEPT !.docker = e2]
                   /\ dframe' = [dframe EXCEPT !.name = name, !.sample = s,
                                               !.time = now, !.decision = decision]
                   /\ pc' = [pc EXCEPT ![t] = "d_send"]
                   /\ UNCHANGED <<decoded_stats_per_container, window>>

\* Lines 101-103: container.stats(...) returns the sample the daemon read at
\* this instant ('read', kept as 'timestamp' by _decode_container_stats).
DockerStats(t) ==
  /\ pc[t] = "d_loop" /\ dframe.containers # <<>>
  /\ \E s \in host.samples :
       dframe' = [dframe EXCEPT !.sample = s, !.read = now]
  /\ pc' = [pc EXCEPT ![t] = "d_stats"]
  /\ UNCHANGED <<now, horizon, host, config, decoded_stats_per_container, server_stats,
                 last_analysis_time, lock, jobs, pending, sframe, query,
                 window, counted, ev>>

\* Lines 109-131: the rest of the iteration, with its own datetime.now().
DockerContainer(t) ==
  /\ pc[t] = "d_stats"
  /\ LET name == Head(dframe.containers)
         s == dframe.sample
     IN  \/ DockerCreate(t, name, s)
         \/ DockerAppend(t, name, s)
         \/ DockerExpired(t, name, s)
  /\ UNCHANGED <<now, horizon, host, config, server_stats, last_analysis_time, lock, jobs,
                 pending, sframe, query>>

\* The chain written as three separate `if`s: a dual violation calls
\* send_resource_alert, send_cpu_alarm and send_memory_alert.
DockerSendIfChain(t) ==
  /\ pc[t] = "d_send"
  /\ LET n == IF dframe.decision = "Both" THEN 3 ELSE 1
     IN  IF SinkRaises(dframe.decision, config.cpu_alarm_threshold,
                       config.memory_alarm_threshold)
           THEN /\ ev' = [ev EXCEPT !.docker.calls = @ + n, !.docker.sink = "raised",
                                    !.docker.error = "ZeroDivisionError",
                                    !.docker.done = TRUE]
                /\ UNCHANGED <<decoded_stats_per_container, window, counted>>
           ELSE /\ \E r \in SinkResults :
                     ev' = [ev EXCEPT !.docker.calls = @ + n, !.docker.sink = r,
                                      !.docker.reset = TRUE, !.docker.done = TRUE]
                /\ DockerReset(dframe.name, dframe.sample, dframe.time)
  /\ dframe' = NextContainer(dframe)
  /\ pc' = [pc EXCEPT ![t] = "d_loop"]
  /\ UNCHANGED <<now, horizon, host, config, server_stats, last_analysis_time,
                 lock, jobs, pending, sframe, query>>

\* send_resource_alert / send_cpu_alarm / send_memory_alert returns or raises;
\* after a return the window is reset (lines 128-129), an exception is caught
\* by the inner except and the reset is skipped.
DockerSend(t) ==
  /\ pc[t] = "d_send"
  /\ IF SinkRaises(dframe.decision, config.cpu_alarm_threshold,
                   config.memory_alarm_threshold)
       THEN /\ ev' = [ev EXCEPT !.docker.calls = @ + 1, !.docker.sink = "raised",
                                !.docker.error = "ZeroDivisionError",
                                !.docker.done = TRUE]
            /\ UNCHANGED <<decoded_stats_per_container, window, counted>>
       ELSE /\ \E r \in SinkResults :
                 ev' = [ev EXCEPT !.docker.calls = @ + 1, !.docker.sink = r,
                                  !.docker.severity =
                                     MessageSeverity(dframe.decision,
                                                     config.cpu_alarm_threshold,
                                                     config.memory_alarm_threshold,
                                                     ev.docker.cpuCmp, ev.docker.memCmp),
                                  !.docker.reset = TRUE, !.docker.done = TRUE]
            /\ DockerReset(dframe.name, dframe.sample, dframe.time)
  /\ dframe' = NextContainer(dframe)
  /\ pc' = [pc EXCEPT ![t] = "d_loop"]
  /\ UNCHANGED <<now, horizon, host, config, server_stats, last_analysis_time, lock, jobs,
                 pending, sframe, query>>

\* The cycle ending with a cleanup of the entries of the containers that
\* were not listed in it.
DockerReturnEvicts(t) ==
  /\ pc[t] = "d_loop" /\ dframe.containers = <<>>
  /\ lock' = [lock EXCEPT !.docker = NoOwner]
  /\ dframe' = NoDFrame
  /\ ev' = [ev EXCEPT !.docker = EvBase("docker", "")]
  /\ JobReturns(t)
  /\ decoded_stats_per_container' =
       [c \in {x \in DOMAIN decoded_stats_per_container :
                 \E i \in 1..Len(dframe.listed) : dframe.listed[i] = x} |->
          decoded_stats_per_container[c]]
  /\ UNCHANGED <<now, horizon, host, config, server_stats,
                 last_analysis_time, sframe, query, window, counted>>

\* The loop is over: the lock is released and _do_monitor returns.
DockerReturn(t) ==
  /\ pc[t] = "d_loop" /\ dframe.containers = <<>>
  /\ lock' = [lock EXCEPT !.docker = NoOwner]
  /\ dframe' = NoDFrame
  /\ ev' = [ev EXCEPT !.docker = EvBase("docker", "")]
  /\ JobReturns(t)
  /\ UNCHANGED <<now, horizon, host, config, decoded_stats_per_container, server_stats,
                 last_analysis_time, sframe, query, window, counted>>

\* --------------------------------------------------- ServerMonitor._do_monitor
\* Lines 29-46, window expired: the means are computed, rounded to two
\* decimals and compared. A ZeroDivisionError of _compute_stats_usage is not
\* caught anywhere: it leaves _do_monitor (releasing the lock) and the thread.
ServerExpired(t) ==
  /\ pc[t] = "run" /\ Head(pending[t]) = "server"
  /\ lock.server = NoOwner
  /\ (now - last_analysis_time) >= config.analysis_period
  /\ LET u == _compute_stats_usage(server_stats.cpu, server_stats.memory)
         e == [EvBase("server", server_name) EXCEPT
                 !.kind = "expired", !.expired = TRUE]
     IN  IF u.err # "none"
           THEN /\ ev' = [ev EXCEPT !.server = [e EXCEPT !.error = u.err, !.done = TRUE]]
                /\ ThreadDies(t)
                /\ UNCHANGED <<lock, sframe, counted>>
           ELSE /\ \E cpu_rounded \in Round2(u.cpuSum, u.cpuN) :
                   \E memory_rounded \in Round2(u.memSum, u.memN) :
                     LET decision == AlertFor(config.cpu_alarm_threshold,
                                              config.memory_alarm_threshold,
                                              cpu_rounded, 1, memory_rounded, 1)
                     IN  /\ ev' = [ev EXCEPT !.server =
                                     [e EXCEPT !.computed = TRUE,
                                               !.cpuSum = u.cpuSum, !.cpuN = u.cpuN,
                                               !.memSum = u.memSum, !.memN = u.memN,
                                               !.cpuCmp = <<cpu_rounded, 1>>,
                                               !.memCmp = <<memory_rounded, 1>>,
                                               !.decision = decision]]
                         /\ sframe' = [NoSFrame EXCEPT !.time = now,
                                                       !.decision = decision]
                         /\ pc' = [pc EXCEPT ![t] = IF decision = "NoAlert"
                                                      THEN "s_reset_cpu"
                                                      ELSE "s_send"]
                /\ lock' = [lock EXCEPT !.server = t]
                /\ counted' = [counted EXCEPT ![server_name] = @ + 1]
                /\ UNCHANGED <<jobs, pending>>
  /\ UNCHANGED <<now, horizon, host, config, decoded_stats_per_container, server_stats,
                 last_analysis_time, dframe, query, window>>

\* The send_* call of lines 39-46 returns, or raises out of _do_monitor.
ServerSend(t) ==
  /\ pc[t] = "s_send"
  /\ IF SinkRaises(sframe.decision, config.cpu_alarm_threshold,
                   config.memory_alarm_threshold)
       THEN /\ ev' = [ev EXCEPT !.server.calls = @ + 1, !.server.sink = "raised",
                                !.server.error = "ZeroDivisionError",
                                !.server.done = TRUE]
            /\ lock' = [lock EXCEPT !.server = NoOwner]
            /\ sframe' = NoSFrame
            /\ ThreadDies(t)
       ELSE /\ \E r \in SinkResults :
                 ev' = [ev EXCEPT !.server.calls = @ + 1, !.server.sink = r,
                                  !.server.severity =
                                     MessageSeverity(sframe.decision,
                                                     config.cpu_alarm_threshold,
                                                     config.memory_alarm_threshold,
                                                     ev.server.cpuCmp, ev.server.memCmp)]
            /\ pc' = [pc EXCEPT ![t] = "s_reset_cpu"]
            /\ UNCHANGED <<lock, sframe, jobs, pending>>
  /\ UNCHANGED <<now, horizon, host, config, decoded_stats_per_container, server_stats,
                 last_analysis_time, dframe, query, window, counted>>

\* Line 47: self.server_stats["cpu"] = []
ServerResetCpu(t) ==
  /\ pc[t] = "s_reset_cpu"
  /\ server_stats' = [server_stats EXCEPT !.cpu = <<>>]
  /\ pc' = [pc EXCEPT ![t] = "s_reset_mem"]
  /\ UNCHANGED <<now, horizon, host, config, decoded_stats_per_container, last_analysis_time,
                 lock, jobs, pending, dframe, sframe, query, window, counted, ev>>

\* Line 48: self.server_stats["memory"] = []
ServerResetMem(t) ==
  /\ pc[t] = "s_reset_mem"
  /\ server_stats' = [server_stats EXCEPT !.memory = <<>>]
  /\ pc' = [pc EXCEPT ![t] = "s_reset_time"]
  /\ UNCHANGED <<now, horizon, host, config, decoded_stats_per_container, last_analysis_time,
                 lock, jobs, pending, dframe, sframe, query, window, counted, ev>>

\* Line 49: self._last_analysis_time = time; the lock is released.
ServerResetTime(t) ==
  /\ pc[t] = "s_reset_time"
  /\ last_analysis_time' = sframe.time
  /\ lock' = [lock EXCEPT !.server = NoOwner]
  /\ sframe' = NoSFrame
  /\ window' = [window EXCEPT ![server_name] = <<>>]
  /\ counted' = [counted EXCEPT ![server_name] = 0]
  /\ ev' = [ev EXCEPT !.server = EvBase("server", server_name)]
  /\ JobReturns(t)
  /\ UNCHANGED <<now, horizon, host, config, decoded_stats_per_container, server_stats,
                 dframe, query>>

\* Lines 29-33 and 50, window not expired: the else branch is entered.
ServerNotExpired(t) ==
  /\ pc[t] = "run" /\ Head(pending[t]) = "server"
  /\ lock.server = NoOwner
  /\ ~((now - last_analysis_time) >= config.analysis_period)
  /\ Len(server_stats.cpu) < MaxHostSamples
  /\ lock' = [lock EXCEPT !.server = t]
  /\ sframe' = [NoSFrame EXCEPT !.time = now]
  /\ pc' = [pc EXCEPT ![t] = "s_sample"]
  /\ ev' = [ev EXCEPT !.server =
              [EvBase("server", server_name) EXCEPT !.kind = "append"]]
  /\ UNCHANGED <<now, horizon, host, config, decoded_stats_per_container, server_stats,
                 last_analysis_time, jobs, pending, dframe, query, window,
                 counted>>

\* Lines 51-53: both psutil reads, then the cpu value is appended.
ServerSample(t) ==
  /\ pc[t] = "s_sample"
  /\ \E s \in host.psutil :
       /\ server_stats' = [server_stats EXCEPT !.cpu = Append(@, s.cpu)]
       /\ sframe' = [sframe EXCEPT !.memory_computed = s.mem]
       /\ window' = [window EXCEPT ![server_name] = Append(@, s)]
  /\ pc' = [pc EXCEPT ![t] = "s_append_mem"]
  /\ UNCHANGED <<now, horizon, host, config, decoded_stats_per_container, last_analysis_time,
                 lock, jobs, pending, dframe, query, counted, ev>>

\* Line 54: the memory value is appended; the lock is released.
ServerAppendMem(t) ==
  /\ pc[t] = "s_append_mem"
  /\ server_stats' = [server_stats EXCEPT !.memory = Append(@, sframe.memory_computed)]
  /\ lock' = [lock EXCEPT !.server = NoOwner]
  /\ sframe' = NoSFrame
  /\ ev' = [ev EXCEPT !.server = EvBase("server", server_name)]
  /\ JobReturns(t)
  /\ UNCHANGED <<now, horizon, host, config, decoded_stats_per_container, last_analysis_time,
                 dframe, query, window, counted>>

\* ------------------------------------------------- main.py get_stats (/stats)
\* docker_monitor.get_stats(): under the lock, the means of every entry.
DockerGetStats ==
  [c \in DOMAIN decoded_stats_per_container |->
     _compute_cpu_usage(decoded_stats_per_container[c].stats)]

\* stats_data = docker_monitor.get_stats(); a KeyError or ZeroDivisionError of
\* _compute_cpu_usage leaves get_stats and the handler answers 500.
QueryDocker ==
  /\ query.pc = "idle" /\ query.served < MaxQueries
  /\ lock.docker = NoOwner
  /\ LET simple_stats == DockerGetStats
     IN  IF \E c \in DOMAIN simple_stats : simple_stats[c].err # "none"
           THEN query' = [query EXCEPT !.pc = "respond", !.error = "500"]
           ELSE query' = [query EXCEPT !.pc = "server",
                                       !.stats_data = simple_stats]
  /\ UNCHANGED <<now, horizon, host, config, decoded_stats_per_container, server_stats,
                 last_analysis_time, lock, jobs, pc, pending, dframe, sframe,
                 window, counted, ev>>

\* server_stats = server_monitor.get_stats(): under the lock, returns
\* self.server_stats itself, not a copy.
QueryServer ==
  /\ query.pc = "server"
  /\ lock.server = NoOwner
  /\ query' = [query EXCEPT !.pc = "format"]
  /\ UNCHANGED <<now, horizon, host, config, decoded_stats_per_container, server_stats,
                 last_analysis_time, lock, jobs, pc, pending, dframe, sframe,
                 window, counted, ev>>

\* format_stats_for_telegram(stats_data, server_stats) reads the returned
\* dictionary, which is the monitor's own, with no lock held.
QueryFormat ==
  /\ query.pc = "format"
  /\ query' = [query EXCEPT !.pc = "respond", !.server_stats = server_stats]
  /\ UNCHANGED <<now, horizon, host, config, decoded_stats_per_container, server_stats,
                 last_analysis_time, lock, jobs, pc, pending, dframe, sframe,
                 window, counted, ev>>

\* The handler returns its response.
QueryRespond ==
  /\ query.pc = "respond"
  /\ query' = [NoQuery EXCEPT !.served = query.served + 1]
  /\ UNCHANGED <<now, horizon, host, config, decoded_stats_per_container, server_stats,
                 last_analysis_time, lock, jobs, pc, pending, dframe, sframe,
                 window, counted, ev>>

\* ------------------------------------------------------------ specification
\* One step of DockerMonitor._do_monitor, run by thread t.
DockerTick(t) ==
  \/ DockerAcquire(t)
  \/ DockerList(t)
  \/ DockerListFails(t)
  \/ DockerStats(t)
  \/ DockerStatsFails(t)
  \/ DockerContainer(t)
  \/ DockerSend(t)
  \/ DockerReturn(t)

\* One step of ServerMonitor._do_monitor, run by thread t.
ServerTick(t) ==
  \/ ServerExpired(t)
  \/ ServerSend(t)
  \/ ServerResetCpu(t)
  \/ ServerResetMem(t)
  \/ ServerResetTime(t)
  \/ ServerNotExpired(t)
  \/ ServerSample(t)
  \/ ServerAppendMem(t)

\* The /stats branch of the Flask handler.
Handler ==
  \/ QueryDocker
  \/ QueryServer
  \/ QueryFormat
  \/ QueryRespond

\* The whole program: both threads loop on the shared scheduler while the
\* handler serves a /stats request.
ProgramConfigs ==
  { [interval |-> 1, analysis_period |-> 1, cpu_alarm_threshold |-> 0,
     memory_alarm_threshold |-> 5003],
    [interval |-> 1, analysis_period |-> 1, cpu_alarm_threshold |-> 5000,
     memory_alarm_threshold |-> 5003] }

Init ==
  InitFor(ProgramConfigs,
          {Host({"web"}, {Sample(8000, 4000, TRUE, TRUE)},
                {Sample(5000, 5000, TRUE, TRUE), Sample(5000, 5010, TRUE, TRUE)})},
          ProgramMaxTime)

Next ==
  \/ ClockAdvance
  \/ \E t \in Threads :
       \/ StartMonitoring(t)
       \/ RunPending(t)
       \/ DockerTick(t)
       \/ ServerTick(t)
  \/ Handler

Spec == Init /\ [][Next]_vars

\* The ticks of both monitors, run one after the other by one thread: the
\* other thread has registered its job and is not scheduled again.
Runner == "monitoring_thread"

TicksInit == InitFor(StatsConfig, {Host({"web"}, DockerSamples, HostSamples)}, MaxTime)

TicksNext ==
  \/ ClockAdvance
  \/ \E t \in Threads : StartMonitoring(t)
  \/ RunPending(Runner)
  \/ DockerTick(Runner)
  \/ ServerTick(Runner)

SpecTicks == TicksInit /\ [][TicksNext]_vars

\* The ticks of DockerMonitor on a host with two containers, before
\* monitor_server_thread has started.
DockerInit == InitFor(StatsConfig, {Host({"web", "db"}, DockerSamples, HostSamples)}, MaxTime)

DockerNext ==
  \/ ClockAdvance
  \/ StartMonitoring(Runner)
  \/ RunPending(Runner)
  \/ DockerTick(Runner)

SpecDocker == DockerInit /\ [][DockerNext]_vars


\* ------------------------------------------------------------------ properties
Monitors == {"docker", "server"}
Alerts == {"Both", "CpuOnly", "MemoryOnly"}

\* The reference decision of the specification on two means and two thresholds.
Reference(cnum, cden, mnum, mden, cth, mth) ==
  LET cpu_over == cnum > cth * cden
      mem_over == mnum > mth * mden
  IN  IF cpu_over /\ mem_over THEN "Both"
      ELSE IF cpu_over THEN "CpuOnly"
      ELSE IF mem_over THEN "MemoryOnly"
      ELSE "NoAlert"

\* The step in which thread t evaluates the expired window of a container.
DockerCloses(t) ==
  /\ pc[t] = "d_stats"
  /\ ev'.docker # ev.docker
  /\ ev'.docker.kind = "expired" /\ ev'.docker.computed

\* The step in which thread t evaluates the expired window of the host.
ServerCloses(t) ==
  /\ pc[t] = "run"
  /\ ev'.server # ev.server
  /\ ev'.server.kind = "expired" /\ ev'.server.computed

\* The positions of ServerMonitor._do_monitor after the alert chain.
AfterServerChain == {"s_reset_cpu", "s_reset_mem", "s_reset_time"}

\* The means recorded in e are the sums and counts of the samples w.
MeansOf(e, w) ==
  /\ e.cpuN = Len(w) /\ e.cpuSum = Sum(CpuValues(w))
  /\ e.memN = Len(w) /\ e.memSum = Sum(MemValues(w))

\* C1: for every target, an evaluation of an expired window makes at most one
\* alert-sink call: exactly one when the decision is Both, CpuOnly or
\* MemoryOnly, none when it is NoAlert; an iteration that does not evaluate an
\* expired window (first sample, append, failed sample) makes none.
C1_OneCallPerClose ==
  /\ \A m \in Monitors :
       /\ ev[m].calls <= 1
       /\ ev[m].calls = 1 =>
            ev[m].expired /\ ev[m].computed /\ ev[m].decision \in Alerts
       /\ ev[m].kind \in {"create", "append", "sample_failed"} => ev[m].calls = 0
       /\ ev[m].decision = "NoAlert" => ev[m].calls = 0
  /\ ev.docker.done /\ ev.docker.computed /\ ev.docker.decision \in Alerts
       => ev.docker.calls = 1
  /\ \A t \in Threads :
       pc[t] \in AfterServerChain /\ ev.server.decision \in Alerts
         => ev.server.calls = 1

\* C1 witness: a container's expired window was evaluated with a dual
\* violation and the one call was made.
C1_Witness ==
  /\ ev.docker.done /\ ev.docker.decision = "Both" /\ ev.docker.calls = 1

\* C2 as stated: in both monitors the decision is the reference decision on
\* the exact means of the evaluated window.
C2_DecisionIsReference ==
  \A m \in Monitors :
    ev[m].computed =>
      ev[m].decision = Reference(ev[m].cpuSum, ev[m].cpuN, ev[m].memSum, ev[m].memN,
                                 config.cpu_alarm_threshold,
                                 config.memory_alarm_threshold)

\* C2 amended: DockerMonitor decides by the reference on the exact means;
\* ServerMonitor decides by the reference on the means rounded to two
\* decimals. The comparison is strict and a dual violation is one call.
C2_DecisionIsReferenceOnComparedMeans ==
  /\ ev.docker.computed =>
       ev.docker.decision =
         Reference(ev.docker.cpuSum, ev.docker.cpuN, ev.docker.memSum, ev.docker.memN,
                   config.cpu_alarm_threshold, config.memory_alarm_threshold)
  /\ ev.server.computed =>
       /\ ev.server.cpuCmp[1] \in Round2(ev.server.cpuSum, ev.server.cpuN)
       /\ ev.server.memCmp[1] \in Round2(ev.server.memSum, ev.server.memN)
       /\ ev.server.decision =
            Reference(ev.server.cpuCmp[1], 1, ev.server.memCmp[1], 1,
                      config.cpu_alarm_threshold, config.memory_alarm_threshold)
  /\ \A m \in Monitors : ev[m].decision = "Both" => ev[m].calls <= 1

\* C2 witness: the host's window closed with a memory mean that rounding
\* changed, and with a CPU mean equal to its threshold.
C2_Witness ==
  /\ ev.server.computed
  /\ ev.server.memCmp[1] * ev.server.memN # ev.server.memSum
  /\ ev.server.cpuSum = config.cpu_alarm_threshold * ev.server.cpuN

\* C3: the CPU mean and the memory mean evaluated when a window closes are
\* sum / count of all the samples appended to the target since its last reset.
C3_ExactMeans ==
  [][\A t \in Threads :
       /\ DockerCloses(t) => MeansOf(ev'.docker, window[ev'.docker.target])
       /\ ServerCloses(t) => MeansOf(ev'.server, window[server_name])]_vars

\* C3 witness: a container's window holding two different samples was evaluated.
C3_Witness ==
  /\ ev.docker.computed /\ ev.docker.cpuN = 2
  /\ ev.docker.cpuSum = 12000

\* The sample container.stats() returned on the tick that closes a window.
ClosingSample(t) == dframe.sample

\* C4 as stated: the sample obtained on the tick that finds the window
\* expired is included in the mean evaluated for the closing window.
C4_ClosingSampleIncluded ==
  [][\A t \in Threads :
       DockerCloses(t) =>
         LET w == Append(window[ev'.docker.target], ClosingSample(t))
         IN  MeansOf(ev'.docker, w)]_vars

\* C4 amended: the sample obtained on the closing tick is not part of the
\* evaluated mean, which is the mean of the samples stored before the tick;
\* whenever the tick resets the window, the new window holds exactly that
\* sample and starts at the tick's time. A window holding the one CPU sample
\* 40 evaluates to 40 and sends no alert for threshold 50, whatever the closing
\* sample (60 or 80). ServerMonitor takes no sample on a closing tick.
C4_ClosingSampleStartsNextWindow ==
  [][\A t \in Threads :
       /\ DockerCloses(t) =>
            /\ MeansOf(ev'.docker, decoded_stats_per_container[ev'.docker.target].stats)
            /\ ev'.docker.reset =>
                 /\ Len(decoded_stats_per_container'[ev'.docker.target].stats) = 1
                 /\ decoded_stats_per_container'[ev'.docker.target].time = now
            /\ ( /\ CpuValues(window[ev'.docker.target]) = <<4000>>
                 /\ MemValues(window[ev'.docker.target]) = <<4000>>
                 /\ config.cpu_alarm_threshold = 5000 )
                 => ev'.docker.decision = "NoAlert" /\ ev'.docker.cpuSum = 4000
       /\ (pc[t] = "d_send" /\ pc'[t] # "d_send" /\ ev'.docker.reset) =>
            decoded_stats_per_container'[dframe.name] =
              [stats |-> <<dframe.sample>>, time |-> dframe.time]
       /\ (pc[t] \in AfterServerChain \cup {"s_send"} \/ ServerCloses(t)) =>
            /\ Len(server_stats'.cpu) <= Len(server_stats.cpu)
            /\ Len(server_stats'.memory) <= Len(server_stats.memory)]_vars

\* C4 witness: a window holding the CPU sample 40 was closed on a tick whose
\* sample was 80: the mean evaluated was 40, no alert, and 80 starts the new
\* window.
C4_Witness ==
  /\ ev.docker.computed /\ ev.docker.reset
  /\ ev.docker.cpuSum = 4000 /\ ev.docker.cpuN = 1
  /\ ev.docker.decision = "NoAlert"
  /\ config.cpu_alarm_threshold = 5000
  /\ CpuValues(decoded_stats_per_container[ev.docker.target].stats) = <<8000>>

\* C5: no sample is counted in two windows: the samples a target holds are
\* evaluated by at most one window close.
C5_NoSampleCountedTwice ==
  \A x \in Targets : counted[x] <= 1

\* C6: a tick that finds the host's window expired while no sample is stored
\* computes no mean, sends no alert, resets the window clock and returns
\* without error.
C6_EmptyWindowOnlyResetsClock ==
  [][\A t \in Threads :
       ( /\ pc[t] = "run" /\ pc'[t] # "run" /\ Head(pending[t]) = "server"
         /\ (now - last_analysis_time) >= config.analysis_period
         /\ server_stats.cpu = <<>> )
       => /\ pc'[t] # "dead"
          /\ ~ev'.server.computed /\ ev'.server.calls = 0
          /\ ev'.server.error = "none"]_vars

\* C7: when container.stats() fails for one container, its entry (samples
\* and window start) is unchanged, every other listed container is still
\* visited in the same cycle, and a later close of the failed container
\* evaluates the exact mean of the samples it stored.
C7_FailureIsolation ==
  /\ [](/\ dframe.attempted \o dframe.containers = dframe.listed
        /\ \A t \in Threads :
             /\ pc[t] = "d_stats" => dframe.containers # <<>>
             /\ pc[t] = "d_send" => /\ dframe.containers # <<>>
                                    /\ dframe.name = Head(dframe.containers))
  /\ [][\A t \in Threads :
          /\ ( /\ pc[t] = "d_loop"
               /\ ev'.docker # ev.docker
               /\ ev'.docker.kind = "sample_failed" )
             => /\ decoded_stats_per_container' = decoded_stats_per_container
                /\ window' = window
                /\ dframe.containers # <<>>
                /\ ev'.docker.target = Head(dframe.containers)
                /\ dframe'.containers = Tail(dframe.containers)
                /\ pc'[t] = "d_loop"
          /\ (pc[t] = "d_loop" /\ pc'[t] \in {"loop", "run"}) => dframe.attempted = dframe.listed
          /\ DockerCloses(t) =>
               /\ MeansOf(ev'.docker, window[ev'.docker.target])
               /\ window[ev'.docker.target] =
                    decoded_stats_per_container[ev'.docker.target].stats]_vars

\* C7 witness: the first listed container, holding two samples, failed to be
\* sampled; the second one is still to be visited in this cycle.
C7_Witness ==
  /\ ev.docker.kind = "sample_failed" /\ ev.docker.target = "web"
  /\ dframe.listed = <<"web", "db">> /\ dframe.containers = <<"db">>
  /\ "web" \in DOMAIN decoded_stats_per_container
  /\ Len(decoded_stats_per_container["web"].stats) = 2

\* C8: no error of a tick stops the scheduler loop: both monitoring threads
\* keep running.
C8_ThreadsKeepRunning ==
  \A t \in Threads : pc[t] # "dead"

\* C9: when the alert-sink call of a window close fails, the aggregate is
\* still reset on that tick and the closed window is not evaluated again.
C9_FailedDispatchStillResets ==
  /\ ev.docker.done /\ ev.docker.sink \in {"failed", "raised"} => ev.docker.reset
  /\ ev.server.sink = "raised" => ev.server.reset

\* C10: what the /stats handler reads for the host is the aggregate before
\* or after a whole append or reset: CPU and memory sequences of one length.
C10_SnapshotNotTorn ==
  Len(query.server_stats.cpu) = Len(query.server_stats.memory)

\* C11: the lock of a monitor is never held by a thread that is about to
\* call, or is inside, a sample-source call (containers.list, container.stats,
\* psutil) or an alert-sink call (send_*).
C11_NoLockAcrossIO ==
  \A t \in Threads :
    /\ ( \/ pc[t] \in {"d_list", "d_send"}
         \/ pc[t] = "d_loop" /\ dframe.containers # <<>> )
       => lock.docker # t
    /\ pc[t] \in {"s_send", "s_sample"} => lock.server # t

\* DockerMonitor's ticks run by one thread while the handler serves a /stats
\* request, on a host with one container.
SnapshotInit == InitFor(StatsConfig, {Host({"web"}, DockerSamples, HostSamples)}, MaxTime)

SnapshotNext ==
  \/ ClockAdvance
  \/ StartMonitoring(Runner)
  \/ RunPending(Runner)
  \/ DockerTick(Runner)
  \/ Handler

SpecSnapshot == SnapshotInit /\ [][SnapshotNext]_vars

\* C12: get_stats changes no sample and no window start, returns without
\* raising in every reachable state, and reports for every known container the
\* mean CPU and mean memory of the samples of its open window.
C12_SnapshotReadOnlyAndTotal ==
  [][ /\ (query.pc = "idle" /\ query'.pc # "idle") =>
           /\ decoded_stats_per_container' = decoded_stats_per_container
           /\ query'.error = "none"
           /\ DOMAIN query'.stats_data = DOMAIN decoded_stats_per_container
           /\ \A c \in DOMAIN decoded_stats_per_container :
                MeansOf(query'.stats_data[c], window[c])
      /\ (query.pc = "server" /\ query'.pc # "server") =>
           /\ server_stats' = server_stats
           /\ last_analysis_time' = last_analysis_time ]_vars

\* The containers listed by the cycle in progress.
Listed == {dframe.listed[i] : i \in 1..Len(dframe.listed)}

\* C13: a container that has an entry and is not listed in a cycle keeps its
\* entry unchanged (same samples, same window start), is not evaluated and
\* triggers no alert; no entry is ever removed, and every entry is reported
\* by get_stats.
C13_AbsentContainerUntouched ==
  /\ [](DOMAIN DockerGetStats = DOMAIN decoded_stats_per_container)
  /\ [][\A c \in DOMAIN decoded_stats_per_container :
          /\ c \in DOMAIN decoded_stats_per_container'
          /\ c \notin Listed =>
               /\ decoded_stats_per_container'[c] = decoded_stats_per_container[c]
               /\ counted'[c] = counted[c]
               /\ ev'.docker # ev.docker => ev'.docker.target # c]_vars

\* C13 witness: a cycle that listed only db has visited it, while web, sampled
\* on an earlier cycle, holds its entry.
C13_Witness ==
  /\ pc[Runner] = "d_loop"
  /\ dframe.listed = <<"db">> /\ dframe.attempted = <<"db">>
  /\ "web" \in DOMAIN decoded_stats_per_container
  /\ "db" \in DOMAIN decoded_stats_per_container

\* The positions inside DockerMonitor._do_monitor and ServerMonitor._do_monitor.
DockerPcs == {"d_list", "d_loop", "d_stats", "d_send"}
ServerPcs == {"s_send", "s_reset_cpu", "s_reset_mem", "s_reset_time",
              "s_sample", "s_append_mem"}

\* C14: two executions of the same monitor's _do_monitor never overlap (at
\* most one thread is inside it, and that thread holds the monitor's lock); a
\* tick that returns, however late, leaves its job scheduled one interval
\* after the return, and no job is ever removed from the scheduler.
C14_TicksAreSequential ==
  /\ [](\A t, u \in Threads :
          /\ (pc[t] \in DockerPcs /\ pc[u] \in DockerPcs) => t = u
          /\ (pc[t] \in ServerPcs /\ pc[u] \in ServerPcs) => t = u
          /\ pc[t] \in DockerPcs => lock.docker = t
          /\ pc[t] \in ServerPcs => lock.server = t)
  /\ [][ /\ Len(jobs') >= Len(jobs)
         /\ \A t \in Threads :
              ( /\ pc[t] \in DockerPcs \cup ServerPcs
                /\ pc'[t] \in {"loop", "run"} )
              => \E i \in 1..Len(jobs') :
                   /\ jobs'[i].func = Head(pending[t])
                   /\ jobs'[i].next_run = now + config.interval ]_vars

\* C14 witness: a tick of DockerMonitor has lasted longer than the interval
\* while the other thread, which found the same job due, waits for the lock.
C14_Witness ==
  \E t, u \in Threads :
    /\ t # u
    /\ pc[t] \in DockerPcs
    /\ pc[u] = "run" /\ Head(pending[u]) = "docker"
    /\ \E i \in 1..Len(jobs) :
         jobs[i].func = "docker" /\ jobs[i].next_run + config.interval <= now

\* --------------------------------------------------- a clock that is set back
\* datetime.now() is the wall clock: an NTP step or an operator sets it back
\* between any two steps of any thread.
ClockBack ==
  /\ now > 0
  /\ now' \in 0..(now - 1)
  /\ UNCHANGED <<horizon, host, config, decoded_stats_per_container, server_stats,
                 last_analysis_time, lock, jobs, pc, pending, dframe, sframe,
                 query, window, counted, ev>>

\* ANALYSIS_PERIOD_MIN is read with float() and nothing else: a negative
\* period is accepted like any other.
ClockConfigs ==
  [interval : Intervals, analysis_period : {-1, 2},
   cpu_alarm_threshold : {5000}, memory_alarm_threshold : MemoryThresholds]

ClockInit ==
  InitFor(ClockConfigs,
          {Host({"web"}, {Sample(8000, 4000, TRUE, TRUE), Sample(4000, 0, TRUE, FALSE)},
                {Sample(5000, 5010, TRUE, TRUE)})},
          ProgramMaxTime)
ClockNext ==
  \/ ClockAdvance
  \/ ClockBack
  \/ \E t \in Threads : StartMonitoring(t)
  \/ RunPending(Runner)
  \/ DockerTick(Runner)
  \/ ServerTick(Runner)
SpecClock == ClockInit /\ [][ClockNext]_vars

\* A tick that finds the clock before the start of the window (the elapsed
\* time is negative) appends its sample, evaluates nothing and leaves the
\* start of the window unchanged -- for a container whose stats call returned,
\* and for the server.
NegativeElapsedAppends ==
  /\ \A t \in Threads :
       ( /\ pc[t] = "d_stats"
         /\ Head(dframe.containers) \in DOMAIN decoded_stats_per_container
         /\ now < decoded_stats_per_container[Head(dframe.containers)].time
         /\ ev'.docker # ev.docker
         /\ ev'.docker.kind # "sample_failed" )
       => LET c == Head(dframe.containers)
          IN  /\ ev'.docker.kind = "append"
              /\ decoded_stats_per_container'[c].time =
                   decoded_stats_per_container[c].time
              /\ Len(decoded_stats_per_container'[c].stats) =
                   Len(decoded_stats_per_container[c].stats) + 1
  /\ \A t \in Threads :
       ( /\ pc[t] = "run" /\ Head(pending[t]) = "server"
         /\ pc'[t] # "run"
         /\ now < last_analysis_time )
       => /\ pc'[t] = "s_sample"
          /\ ev'.server.kind = "append"
          /\ last_analysis_time' = last_analysis_time

ClockBackwardWithPositivePeriod ==
  [][config.analysis_period > 0 => NegativeElapsedAppends]_vars

\* A tick of either monitor met a negative elapsed time and appended.
ClockBackwardSeen ==
  \/ /\ ev.docker.kind = "append" /\ ev.docker.done
     /\ now < decoded_stats_per_container[ev.docker.target].time
  \/ /\ pc[Runner] = "s_sample" /\ now < last_analysis_time

\* The same tick under a positive analysis period.
ClockBackwardSeenWithPositivePeriod == config.analysis_period > 0 /\ ClockBackwardSeen

\* ------------------------------------------------ configurations as accepted
\* StatsConfig.__init__ and DockerMonitorConfig.__init__ convert the
\* environment variables with int() and float() and check nothing: every
\* number is accepted, zero and negative ones included.
AcceptedConfigs ==
  [interval : Intervals, analysis_period : {0, 2},
   cpu_alarm_threshold : {-1, 5000}, memory_alarm_threshold : MemoryThresholds]

ConfigInit ==
  InitFor(AcceptedConfigs,
          {Host({"web"}, {Sample(8000, 4000, TRUE, TRUE), Sample(4000, 0, TRUE, FALSE)},
                HostSamples)},
          ProgramMaxTime)
ConfigNext == TicksNext
SpecConfig == ConfigInit /\ [][ConfigNext]_vars

\* The configurations the specification calls invalid.
InvalidConfiguration(c) ==
  \/ c.interval <= 0
  \/ c.analysis_period <= 0
  \/ c.cpu_alarm_threshold < 0
  \/ c.memory_alarm_threshold < 0

\* C16: under an invalid configuration (an interval or analysis period that is
\* not positive, or a negative threshold) monitoring is never started: no job
\* is registered with the scheduler and no thread ever runs a tick.
C16_InvalidConfigurationNeverTicks ==
  InvalidConfiguration(config) =>
    /\ jobs = <<>>
    /\ \A t \in Threads : pc[t] = "start"

\* ------------------------------------------------------------ process exit
\* The main thread leaves app.run (SIGINT) or the process is terminated
\* (SIGTERM). Both monitoring threads were created with daemon=True and are
\* never joined: the interpreter exits without waiting for them, each thread
\* stops at whatever statement it had reached.
ProcessExit ==
  /\ \E t \in Threads : pc[t] # "killed"
  /\ pc' = [t \in Threads |-> "killed"]
  /\ UNCHANGED <<now, horizon, host, config, decoded_stats_per_container, server_stats,
                 last_analysis_time, lock, jobs, pending, dframe, sframe,
                 query, window, counted, ev>>

ShutdownInit == InitFor(StatsConfig, {Host({"web"}, DockerSamples, HostSamples)}, MaxTime)
ShutdownNext == TicksNext \/ ProcessExit
SpecShutdown == ShutdownInit /\ [][ShutdownNext]_vars

\* C17: when the process has exited no tick was cut short: neither monitor's
\* lock is still held by a thread that was inside _do_monitor, and the server
\* window is not left between its two resets or its two appends.
C17_NoTickCancelledMidway ==
  (\A t \in Threads : pc[t] = "killed") =>
    /\ lock.docker = NoOwner
    /\ lock.server = NoOwner
    /\ Len(server_stats.cpu) = Len(server_stats.memory)

\* C18: the window of a target is closed on a tick exactly when the elapsed
\* time since its start has reached the analysis period: an iteration that
\* obtained its sample and found the window expired ends with the window
\* reset, and a window is reset only when it was found expired.
C18_ExpiredWindowIsClosedAtOnce ==
  /\ (ev.docker.done /\ ev.docker.expired) => ev.docker.reset
  /\ ev.docker.reset => ev.docker.expired
  /\ (ev.server.done /\ ev.server.expired) => ev.server.reset

\* C19: the start of a target's window is never later than the instant at
\* which any sample of the window was read: whenever an iteration stores its
\* sample (first sight, append, or reset after a close) the window start of
\* the entry is at or before the instant container.stats() read the sample,
\* and a host sample is read at or after the start of the host window.
C19_WindowStartNotAfterSample ==
  /\ [][\A t \in Threads :
          ( /\ pc[t] \in {"d_stats", "d_send"}
            /\ Head(dframe.containers) \in DOMAIN decoded_stats_per_container'
            /\ \/ Head(dframe.containers) \notin DOMAIN decoded_stats_per_container
               \/ decoded_stats_per_container'[Head(dframe.containers)] #
                    decoded_stats_per_container[Head(dframe.containers)] )
          => decoded_stats_per_container'[Head(dframe.containers)].time <= dframe.read]_vars
  /\ [][Len(server_stats'.cpu) > Len(server_stats.cpu) => last_analysis_time <= now]_vars

\* C20: every tick takes a sample of every listed target and the sample is
\* accounted to a window, the closing ticks included: a tick of ServerMonitor
\* ends only after it has read and appended a host sample (lines 51-54), and
\* an iteration of DockerMonitor that obtained its sample leaves it stored as
\* the newest sample of the container's entry.
C20_EveryTickSamples ==
  [][\A t \in Threads :
       /\ (pc[t] \in ServerPcs /\ pc'[t] \notin ServerPcs) => pc[t] = "s_append_mem"
       /\ ( /\ pc[t] \in {"d_stats", "d_send"}
            /\ pc'[t] = "d_loop" )
          => LET c == Head(dframe.containers)
             IN  /\ c \in DOMAIN decoded_stats_per_container'
                 /\ decoded_stats_per_container'[c].stats # <<>>
                 /\ decoded_stats_per_container'[c].stats[
                      Len(decoded_stats_per_container'[c].stats)] = dframe.sample ]_vars

\* The Docker half of C20 where nothing raises between the stats call and
\* the store: the sample of every such iteration ends up in the entry.
DockerSampleStoredUnlessRaised ==
  [][\A t \in Threads :
       ( /\ pc[t] \in {"d_stats", "d_send"}
         /\ pc'[t] = "d_loop"
         /\ ev'.docker.error = "none" )
       => LET c == Head(dframe.containers)
          IN  /\ c \in DOMAIN decoded_stats_per_container'
              /\ decoded_stats_per_container'[c].stats[
                   Len(decoded_stats_per_container'[c].stats)] = dframe.sample ]_vars

\* C21: under every configuration whose thresholds are not negative (a
\* threshold of exactly 0 included) no call of send_cpu_alarm,
\* send_memory_alert or send_resource_alert raises: each call made by a tick
\* ends with the sink's boolean result.
C21_SinkNeverRaises ==
  (config.cpu_alarm_threshold >= 0 /\ config.memory_alarm_threshold >= 0) =>
    /\ ev.docker.calls > 0 => ev.docker.sink \in SinkResults
    /\ ev.server.calls > 0 => ev.server.sink \in SinkResults

\* The alert records of the ticks whose send_* call returned.
SentAlerts == {e \in {ev.docker, ev.server} : e.sink \in SinkResults}

\* value / threshold >= p / q for the compared value v = <<num, den>>.
RatioGE(v, threshold, p, q) == q * v[1] >= p * threshold * v[2]

\* The severity the specification gives to the ratio value / threshold; under
\* a negative threshold the ratio of a percentage is not positive.
SeverityOfRatio(v, threshold) ==
  IF threshold < 0 THEN "WARNING"
  ELSE IF RatioGE(v, threshold, 3, 2) THEN "CRITICAL"
  ELSE IF RatioGE(v, threshold, 6, 5) THEN "HIGH"
  ELSE "WARNING"

\* C22 as stated: the severity of every alert follows from the ratio of a
\* violated resource alone: CRITICAL only if a violated resource's ratio is
\* at least 1.5, and the single-resource alerts carry exactly the severity
\* of their ratio.
C22_SeverityFollowsRatio ==
  \A e \in SentAlerts :
    /\ e.decision = "CpuOnly" =>
         e.severity = SeverityOfRatio(e.cpuCmp, config.cpu_alarm_threshold)
    /\ e.decision = "MemoryOnly" =>
         e.severity = SeverityOfRatio(e.memCmp, config.memory_alarm_threshold)
    /\ e.decision = "Both" =>
         e.severity \in {SeverityOfRatio(e.cpuCmp, config.cpu_alarm_threshold),
                         SeverityOfRatio(e.memCmp, config.memory_alarm_threshold)}

\* C22 amended: a CPU-only or memory-only alert carries the severity of its
\* own ratio (CRITICAL iff ratio >= 1.5, HIGH iff 1.2 <= ratio < 1.5, WARNING
\* otherwise); a dual alert always carries CRITICAL, whatever the two ratios;
\* and the kind dispatched is the one the threshold comparison chose.
C22_SeverityFollowsRatioForSingleAlerts ==
  \A e \in SentAlerts :
    /\ e.decision = "CpuOnly" =>
         e.severity = SeverityOfRatio(e.cpuCmp, config.cpu_alarm_threshold)
    /\ e.decision = "MemoryOnly" =>
         e.severity = SeverityOfRatio(e.memCmp, config.memory_alarm_threshold)
    /\ e.decision = "Both" => e.severity = "CRITICAL"
    /\ e.decision = Reference(e.cpuCmp[1], e.cpuCmp[2], e.memCmp[1], e.memCmp[2],
                              config.cpu_alarm_threshold,
                              config.memory_alarm_threshold)

\* C22 witness: a CPU-only alert for a mean of 60 against the threshold 50,
\* a ratio of exactly 1.2, was sent as HIGH.
C22_Witness ==
  /\ ev.docker.sink \in SinkResults
  /\ ev.docker.decision = "CpuOnly"
  /\ ev.docker.cpuCmp = <<12000, 2>>
  /\ config.cpu_alarm_threshold = 5000
  /\ ev.docker.severity = "HIGH"

\* C23: every entry of decoded_stats_per_container holds at least one sample:
\* an entry appears together with its first sample on a tick that evaluates
\* nothing, a window close leaves exactly the sample of the closing tick, and
\* neither get_stats nor a window close ever divides by zero.
C23_EntriesNeverEmpty ==
  /\ [](/\ \A c \in DOMAIN decoded_stats_per_container :
             /\ Len(decoded_stats_per_container[c].stats) >= 1
             /\ DockerGetStats[c].err # "ZeroDivisionError"
        /\ (ev.docker.expired /\ ~ev.docker.computed) =>
             ev.docker.error # "ZeroDivisionError")
  /\ [][\A c \in DOMAIN decoded_stats_per_container' :
          /\ c \notin DOMAIN decoded_stats_per_container =>
               /\ decoded_stats_per_container'[c].stats = <<dframe.sample>>
               /\ ev'.docker.kind = "create" /\ ~ev'.docker.computed
               /\ ev'.docker.calls = 0
          /\ ( /\ c \in DOMAIN decoded_stats_per_container
               /\ ev'.docker.target = c /\ ev'.docker.reset /\ ~ev.docker.reset )
             => decoded_stats_per_container'[c].stats = <<dframe.sample>>]_vars

\* C23 witness: a window that held two samples was closed and its entry now
\* holds the single sample of the closing tick.
C23_Witness ==
  /\ ev.docker.reset /\ ev.docker.cpuN = 2
  /\ ev.docker.target \in DOMAIN decoded_stats_per_container
  /\ Len(decoded_stats_per_container[ev.docker.target].stats) = 1

\* The job functions thread t has collected in run_pending and not yet run.
Collected(t) == {pending[t][i] : i \in 1..Len(pending[t])}

\* C24: each monitor is ticked by its own thread only, once per due
\* occurrence: DockerMonitor._do_monitor runs in monitoring_thread,
\* ServerMonitor._do_monitor in monitor_server_thread, and the two threads
\* never hold the same due job at the same time.
C24_OneThreadPerMonitor ==
  /\ \A t \in Threads :
       /\ pc[t] \in DockerPcs => JobOf(t) = "docker"
       /\ pc[t] \in ServerPcs => JobOf(t) = "server"
  /\ \A t, u \in Threads : t # u => Collected(t) \cap Collected(u) = {}

====
